---- MODULE Spec2Model ----
(***************************************************************************)
(* The ScrapeGraph Python SDK's AsyncClient                                *)
(* (scrapegraph_py/async_client.py):                                       *)
(*   Spec        the request lifecycle: facade method, request validation, *)
(*               _make_request's retry loop and error classification, next *)
(*               to the lifecycle specified for the synchronous Client;    *)
(*   SpecCtor    construction, from the environment or from an argument;   *)
(*   SpecClient  the job queue, its processor task and the async with      *)
(*               block, used by concurrent coroutines;                     *)
(*   SpecLib     the module-level functions feedback, scrape, scrape_text  *)
(*               and the scheduled-job request models;                     *)
(*   SpecGather  two facade calls in flight at once on one client.         *)
(***************************************************************************)
EXTENDS Integers, Sequences, FiniteSets, TLC

(* ------------------------------ bounds -------------------------------- *)

\* largest max_retries a client is constructed with
MaxRetries == 4

\* largest retry_delay a client is constructed with (in whole time units)
MaxDelay == 2

\* the facade calls the model tracks
Calls == {1}

\* largest max_queue_size a client is constructed with
MaxQueue == 1

\* number of jobs submitted in one run
MaxJobs == 2

\* number of queue processor tasks created in one run
MaxProcTasks == 2

\* the longest timeout passed to wait_for_job, in polls of 0.1 s
MaxTimeout == 1

\* the longest string given to a request model, in characters
MaxStrLen == 11

\* the coroutines using the client inside the async with block; coroutine 1
\* is the one that entered the block
Coros == {1, 2}

MainCoro == 1

JobIds == 1..MaxJobs

TaskIds == 1..MaxProcTasks

\* max_retries is any int the constructor is given: negative, zero, positive
RetriesDomain == (0 - 1)..MaxRetries

DelayDomain == 0..MaxDelay

(* ------------------------------ values -------------------------------- *)

\* Python's None where a JSON object is expected
PyNone == [k \in {"None"} |-> "None"]

\* an absent / None HTTP status
NoStatus == 0

Methods ==
    {"markdownify", "get_markdownify", "smartscraper", "get_smartscraper",
     "submit_feedback", "get_credits", "searchscraper", "get_searchscraper"}

\* the request_id arguments
RequestIds == {"r1", "r2"}

\* the HTTP method and the path under API_BASE_URL that facade method m
\* passes to _make_request
Endpoint(m, r) ==
    CASE m = "markdownify"       -> <<"POST", <<"markdownify">>>>
      [] m = "get_markdownify"   -> <<"GET", <<"markdownify", r>>>>
      [] m = "smartscraper"      -> <<"POST", <<"smartscraper">>>>
      [] m = "get_smartscraper"  -> <<"GET", <<"smartscraper", r>>>>
      [] m = "submit_feedback"   -> <<"POST", <<"feedback">>>>
      [] m = "get_credits"       -> <<"GET", <<"credits">>>>
      [] m = "searchscraper"     -> <<"POST", <<"searchscraper">>>>
      [] m = "get_searchscraper" -> <<"GET", <<"searchscraper", r>>>>

\* the facade methods that build a request model before the HTTP call
BuildsRequestModel(m) == m /= "get_credits"

\* response bodies as the wire carries them: one JSON member <<key, value>>
OkBodies == {<<"remaining_credits", "100">>, <<"status", "completed">>}

\* error bodies: with an "error" member, without one, and not JSON at all
ErrorBodies == {<<"error", "Bad request">>, <<"detail", "gone">>, <<>>}

ErrorStatuses == {400, 503}

\* what one HTTP attempt can meet: a response, a ClientError without a
\* status (connection level), a ClientError carrying an HTTP status
Outcomes ==
    [type : {"ok"}, status : {200}, body : OkBodies, text : {""}]
    \cup [type : {"conn"}, status : {NoStatus}, body : {<<>>},
          text : {"Network error"}]
    \cup [type : {"status"}, status : ErrorStatuses, body : ErrorBodies,
          text : {"Bad Request"}]

InSeq(x, s) == \E i \in 1..Len(s) : s[i] = x

\* json(): the object a one-member body denotes; <<>> is not JSON
IsJson(raw) == Len(raw) = 2

ParseJson(raw) == [k \in {raw[1]} |-> raw[2]]

\* dict.get(key, default)
DictGet(obj, key, default) == IF key \in DOMAIN obj THEN obj[key] ELSE default

Exc(cls, msg, code) == [cls |-> cls, msg |-> msg, status_code |-> code]

Pending ==
    [kind |-> "pending", cls |-> "", msg |-> <<>>, status_code |-> NoStatus,
     value |-> PyNone]

Return(v) ==
    [kind |-> "return", cls |-> "", msg |-> <<>>, status_code |-> NoStatus,
     value |-> v]

Raise(e) ==
    [kind |-> "raise", cls |-> e.cls, msg |-> e.msg,
     status_code |-> e.status_code, value |-> PyNone]

(* ----------------------------- exceptions ------------------------------ *)

\* the parameters APIError.__init__ accepts
APIErrorParams == {"message", "response"}

\* APIError(...) called with the keyword arguments kw. The object has the
\* attributes message and response only: status_code NoStatus stands for
\* "no such attribute". A keyword the signature lacks is a TypeError.
APIError(kw) ==
    IF DOMAIN kw \subseteq APIErrorParams
    THEN Exc("APIError", kw.message, NoStatus)
    ELSE Exc("TypeError", <<"unexpected keyword argument">>, NoStatus)

PyConnectionError(text) ==
    Exc("ConnectionError", <<"Failed to connect to API:", text>>, NoStatus)

\* pydantic's error for arguments a request model rejects
ValidationError == Exc("ValidationError", <<"validation error">>, NoStatus)

(* ------------------------------- state --------------------------------- *)

VARIABLES
    max_retries,    \* AsyncClient.max_retries
    retry_delay,    \* AsyncClient.retry_delay
    pc,             \* per call: where the coroutine stands
    meth,           \* per call: the facade method called
    args_valid,     \* per call: whether the request model accepts the args
    rid,            \* per call: the request_id argument
    wire,           \* per call: the (HTTP method, path) of each attempt sent
    attempt,        \* per call: _make_request's loop variable
    http_calls,     \* per call: session.request calls issued
    waits,          \* per call: the asyncio.sleep delays, in order
    result,         \* per call: how validation and _make_request ended
    served,         \* per call: the server's outcome for attempt 1, 2, ...
    s_pc,           \* synchronous Client, same call: position
    s_attempt,      \* synchronous Client: retry counter
    s_http_calls,   \* synchronous Client: HTTP calls issued
    s_result,       \* synchronous Client: what the caller received
    env_key,        \* the environment's SGAI_API_KEY
    ctor_how,       \* how the client was made: "-", "from_env", "init_none", "init_arg"
    constructed,    \* "no", "yes", or "raised" (the constructor raised)
    api_key,        \* AsyncClient.api_key
    ctor_exc,       \* the exception the constructor raised
    session,        \* AsyncClient.session: "none", "open", "closed"
    max_queue_size, \* the maxsize of job_queue
    has_queue,      \* whether job_queue and jobs were created
    job_queue,      \* AsyncClient.job_queue: the ids of the waiting jobs
    jobs,           \* AsyncClient.jobs: per id, the Job (status "none": absent)
    ran,            \* per job id: what the job's task did when it was run
    queue_processor_task, \* AsyncClient._queue_processor_task: NoTask or a task
    proc,           \* per processor task: "unborn", "get", "run", "done"
    cancel_req,     \* per processor task: a cancellation is pending
    proc_job,       \* per processor task: the job it is running
    upc,            \* per coroutine: where it stands
    u_job,          \* per coroutine: the job id of its operation
    u_task,         \* per coroutine: the task stop_queue_processor awaits
    uret,           \* the outcome of the operation that ended last
    u_timeout,      \* per coroutine: wait_for_job's timeout argument
    u_elapsed,      \* per coroutine: the 0.1 s sleeps wait_for_job completed
    returned_ids,   \* the ids submit_job returned, in order
    cm_phase,       \* the async with block: "none", "body", "closing", "left"
    body_exit,      \* how the body ended: "-", "normal", "raised"
    lib_fn,         \* the module-level function or request model applied
    post_in,        \* what requests.post does when that function calls it
    str_in,         \* the string given to a request model, as characters
    lib_out,        \* what the function returned or raised
    lib_again       \* what validating the stored value once more gives

request_vars ==
    <<pc, meth, args_valid, rid, wire, attempt, http_calls, waits, result,
      served, s_pc, s_attempt, s_http_calls, s_result>>

ctor_vars ==
    <<env_key, ctor_how, constructed, api_key, ctor_exc, has_queue, max_queue_size>>

queue_vars == <<job_queue, jobs, ran>>

proc_vars == <<queue_processor_task, proc, cancel_req, proc_job>>

coro_vars == <<upc, u_job, u_task, uret>>

wait_vars == <<u_timeout, u_elapsed>>

cm_vars == <<cm_phase, body_exit>>

lib_vars == <<lib_fn, post_in, str_in, lib_out, lib_again>>

client_vars ==
    <<ctor_vars, session, queue_vars, proc_vars, coro_vars, wait_vars,
      returned_ids, cm_vars>>

vars == <<max_retries, retry_delay, request_vars, client_vars, lib_vars>>

config == <<max_retries, retry_delay, client_vars, lib_vars>>

async_vars == <<pc, attempt, http_calls, waits, result, wire>>

sync_vars == <<s_pc, s_attempt, s_http_calls, s_result>>

(* ------------------------- AsyncClient: requests ----------------------- *)

\* for attempt in range(self.max_retries)
InRangeOff(a, n) == a <= n

InRange(a, n) == a < n

\* if attempt == self.max_retries - 1
IsLastAttemptNever(a, n) == a = n

IsLastAttempt(a, n) == a = n - 1

\* retry_delay = self.retry_delay * (attempt + 1)
RetryDelayFlat(d, a) == d

RetryDelay(d, a) == d * (a + 1)

\* handle_async_response: the parsed JSON body of the response
handle_async_response(o) == ParseJson(o.body)

\* async with self.session.request(...) as response: ... return result
OnResponseDropped(o) == Return(PyNone)

OnResponse(o) == Return(handle_async_response(o))

\* if hasattr(e, "status") and e.status is not None
HasStatusNever(o) == FALSE

HasStatus(o) == o.status /= NoStatus

\* except ClientError as e, with e.status set: the error raised
OnStatusError(o) ==
    IF IsJson(o.body)
    THEN Raise(APIError([message |-> <<DictGet(ParseJson(o.body), "error", o.text)>>,
                         status_code |-> o.status]))
    ELSE Raise(APIError([message |-> <<o.text>>, status_code |-> o.status]))

\* the request model is built, and validated, before _make_request is called
ValidationRejectsNever(m, valid) == FALSE

ValidationRejects(m, valid) == BuildsRequestModel(m) /\ ~valid

\* the server's outcome for attempt i of call c, the same for both clients
Serve(c, i, o) ==
    IF i <= Len(served[c])
    THEN o = served[c][i] /\ UNCHANGED served
    ELSE o \in Outcomes /\ served' = [served EXCEPT ![c] = Append(@, o)]

\* a facade method is called: validation, then _make_request
CallFacade(c) ==
    /\ pc[c] = "idle"
    /\ \E m \in Methods, valid \in BOOLEAN, r \in RequestIds :
        /\ meth' = [meth EXCEPT ![c] = m]
        /\ args_valid' = [args_valid EXCEPT ![c] = valid]
        /\ rid' = [rid EXCEPT ![c] = r]
        /\ IF ValidationRejects(m, valid)
           THEN /\ pc' = [pc EXCEPT ![c] = "done"]
                /\ result' = [result EXCEPT ![c] = Raise(ValidationError)]
                /\ s_pc' = [s_pc EXCEPT ![c] = "done"]
                /\ s_result' = [s_result EXCEPT ![c] = Raise(ValidationError)]
           ELSE /\ pc' = [pc EXCEPT ![c] = "loop"]
                /\ s_pc' = [s_pc EXCEPT ![c] = "loop"]
                /\ UNCHANGED <<result, s_result>>
    /\ UNCHANGED <<config, wire, attempt, http_calls, waits, served, s_attempt,
                   s_http_calls>>

\* attempt, the loop variable: a local variable of call c's own coroutine
LoopVarShared(c) ==
    attempt[CHOOSE x \in DOMAIN attempt : \A y \in DOMAIN attempt : x <= y]

LoopVar(c) == attempt[c]

\* the head of the for loop: another attempt, or the loop is exhausted and
\* the function ends without a return statement
LoopHead(c) ==
    /\ pc[c] = "loop"
    /\ IF InRange(LoopVar(c), max_retries)
       THEN /\ pc' = [pc EXCEPT ![c] = "http"]
            /\ UNCHANGED result
       ELSE /\ pc' = [pc EXCEPT ![c] = "done"]
            /\ result' = [result EXCEPT ![c] = Return(PyNone)]
    /\ UNCHANGED <<config, meth, args_valid, rid, wire, attempt, http_calls,
                   waits, served, sync_vars>>

\* one session.request and what follows it up to the next await
HttpAttempt(c) ==
    /\ pc[c] = "http"
    /\ \E o \in Outcomes :
        /\ Serve(c, http_calls[c] + 1, o)
        /\ http_calls' = [http_calls EXCEPT ![c] = @ + 1]
        /\ wire' = [wire EXCEPT ![c] = Append(@, Endpoint(meth[c], rid[c]))]
        /\ CASE o.type = "ok" ->
                  /\ result' = [result EXCEPT ![c] = OnResponse(o)]
                  /\ pc' = [pc EXCEPT ![c] = "done"]
                  /\ UNCHANGED waits
             [] o.type /= "ok" /\ HasStatus(o) ->
                  /\ result' = [result EXCEPT ![c] = OnStatusError(o)]
                  /\ pc' = [pc EXCEPT ![c] = "done"]
                  /\ UNCHANGED waits
             [] /\ o.type /= "ok"
                /\ ~HasStatus(o)
                /\ IsLastAttempt(LoopVar(c), max_retries) ->
                  /\ result' = [result EXCEPT ![c] = Raise(PyConnectionError(o.text))]
                  /\ pc' = [pc EXCEPT ![c] = "done"]
                  /\ UNCHANGED waits
             [] OTHER ->
                  /\ waits' = [waits EXCEPT ![c] =
                                  Append(@, RetryDelay(retry_delay, LoopVar(c)))]
                  /\ pc' = [pc EXCEPT ![c] = "sleep"]
                  /\ UNCHANGED result
    /\ UNCHANGED <<config, meth, args_valid, rid, attempt, sync_vars>>

\* asyncio.sleep(retry_delay) is over: the next iteration
SleepDone(c) ==
    /\ pc[c] = "sleep"
    /\ attempt' = [attempt EXCEPT ![c] = @ + 1]
    /\ pc' = [pc EXCEPT ![c] = "loop"]
    /\ UNCHANGED <<config, meth, args_valid, rid, wire, http_calls, waits,
                   result, served, sync_vars>>

(* ------------------- synchronous Client, as specified ------------------ *)

\* the error the synchronous client raises for a failure carrying a status
SyncStatusError(o) ==
    Raise(Exc("APIError",
              <<IF IsJson(o.body)
                THEN DictGet(ParseJson(o.body), "error", o.text)
                ELSE o.text>>,
              o.status))

\* retry up to the bound
SyncLoopHead(c) ==
    /\ s_pc[c] = "loop"
    /\ IF s_attempt[c] < max_retries
       THEN /\ s_pc' = [s_pc EXCEPT ![c] = "http"]
            /\ UNCHANGED s_result
       ELSE /\ s_pc' = [s_pc EXCEPT ![c] = "done"]
            /\ s_result' = [s_result EXCEPT ![c] = Return(PyNone)]
    /\ UNCHANGED <<config, meth, args_valid, rid, async_vars, served, s_attempt,
                   s_http_calls>>

\* one HTTP call: parse JSON on success, classify the error, back off
SyncAttempt(c) ==
    /\ s_pc[c] = "http"
    /\ \E o \in Outcomes :
        /\ Serve(c, s_http_calls[c] + 1, o)
        /\ s_http_calls' = [s_http_calls EXCEPT ![c] = @ + 1]
        /\ CASE o.type = "ok" ->
                  /\ s_result' = [s_result EXCEPT ![c] = Return(ParseJson(o.body))]
                  /\ s_pc' = [s_pc EXCEPT ![c] = "done"]
                  /\ UNCHANGED s_attempt
             [] o.type = "status" ->
                  /\ s_result' = [s_result EXCEPT ![c] = SyncStatusError(o)]
                  /\ s_pc' = [s_pc EXCEPT ![c] = "done"]
                  /\ UNCHANGED s_attempt
             [] o.type = "conn" /\ s_attempt[c] = max_retries - 1 ->
                  /\ s_result' = [s_result EXCEPT ![c] = Raise(PyConnectionError(o.text))]
                  /\ s_pc' = [s_pc EXCEPT ![c] = "done"]
                  /\ UNCHANGED s_attempt
             [] OTHER ->
                  /\ s_attempt' = [s_attempt EXCEPT ![c] = @ + 1]
                  /\ s_pc' = [s_pc EXCEPT ![c] = "loop"]
                  /\ UNCHANGED s_result
    /\ UNCHANGED <<config, meth, args_valid, rid, async_vars>>

(* ----------------------- AsyncClient: construction ---------------------- *)

\* os.getenv of a variable that is not set
Unset == "<unset>"

EnvValues == {Unset, "", "sgai-1", "sgai-2"}

\* the api_key arguments a caller passes explicitly
KeyArgs == {"", "sgai-3"}

\* the defaults of __init__
DefaultMaxRetries == 3

DefaultRetryDelay == 1

NoExc == Exc("", <<>>, NoStatus)

\* if not api_key, for the value getenv returned
EnvKeyMissingNoneOnly(k) == k = Unset

EnvKeyMissing(k) == k = Unset \/ k = ""

FromEnvError ==
    Exc("ValueError", <<"SGAI_API_KEY", "environment variable not set">>, NoStatus)

InitEnvError ==
    Exc("ValueError",
        <<"SGAI_API_KEY", "not provided and not found in environment">>, NoStatus)

\* validate_api_key: an API key must not be empty
ApiKeyError == Exc("ValueError", <<"Invalid API key">>, NoStatus)

ValidateApiKeyRejects(k) == k = ""

\* the constructor raises e before anything is assigned or created
CtorRaises(e) ==
    /\ constructed' = "raised"
    /\ ctor_exc' = e
    /\ UNCHANGED <<api_key, session, has_queue, max_queue_size, max_retries,
                   retry_delay>>

\* the body of __init__ from validate_api_key on, for the key k
InitWithKey(k) ==
    IF ValidateApiKeyRejects(k)
    THEN CtorRaises(ApiKeyError)
    ELSE /\ constructed' = "yes"
         /\ api_key' = k
         /\ max_retries' \in RetriesDomain
         /\ retry_delay' \in DelayDomain
         /\ session' = "open"
         /\ has_queue' = TRUE
         /\ max_queue_size' \in 0..MaxQueue
         /\ UNCHANGED ctor_exc

\* AsyncClient.from_env()
FromEnv ==
    /\ constructed = "no"
    /\ ctor_how' = "from_env"
    /\ IF EnvKeyMissing(env_key) THEN CtorRaises(FromEnvError) ELSE InitWithKey(env_key)
    /\ UNCHANGED <<request_vars, lib_vars, env_key, queue_vars, proc_vars,
                   coro_vars, wait_vars,
                   returned_ids, cm_vars>>

\* AsyncClient(api_key=None)
InitFromEnv ==
    /\ constructed = "no"
    /\ ctor_how' = "init_none"
    /\ IF EnvKeyMissing(env_key) THEN CtorRaises(InitEnvError) ELSE InitWithKey(env_key)
    /\ UNCHANGED <<request_vars, lib_vars, env_key, queue_vars, proc_vars,
                   coro_vars, wait_vars,
                   returned_ids, cm_vars>>

\* AsyncClient(api_key=k)
InitWithArg ==
    /\ constructed = "no"
    /\ ctor_how' = "init_arg"
    /\ \E k \in KeyArgs : InitWithKey(k)
    /\ UNCHANGED <<request_vars, lib_vars, env_key, queue_vars, proc_vars,
                   coro_vars, wait_vars,
                   returned_ids, cm_vars>>

(* ------------------------ AsyncClient: job queue ------------------------ *)

NoTask == 0

NoJob == 0

\* what a job's task can do when it is run: return a value (None being
\* one) or raise an exception
JobValues == {"None", "v1"}

JobErrors == {"E1"}

NoJobRecord ==
    [status |-> "none", started |-> FALSE, completed |-> FALSE,
     result |-> "None", error |-> "None"]

\* Job(id=job_id, status=JobStatus.PENDING, created_at=..., task=task, ...)
NewJob ==
    [status |-> "pending", started |-> FALSE, completed |-> FALSE,
     result |-> "None", error |-> "None"]

NotRun == [kind |-> "none", val |-> "None"]

\* job_id in self.jobs
InJobsAlways(id) == TRUE

InJobs(id) == jobs[id].status /= "none"

\* asyncio.Queue.full()
QueueFullNever == FALSE

QueueFull == max_queue_size > 0 /\ Len(job_queue) >= max_queue_size

\* str(uuid4()): an id no job has yet
FreshJobIdReused == CHOOSE id \in JobIds : \A j \in JobIds : id <= j

FreshJobId == CHOOSE id \in JobIds : ~InJobs(id) /\ \A j \in JobIds : ~InJobs(j) => id <= j

FreshTask == CHOOSE t \in TaskIds : proc[t] = "unborn" /\ \A x \in TaskIds : proc[x] = "unborn" => t <= x

NoOutcome == [op |-> "", job |-> NoJob, kind |-> "pending", val |-> "None"]

Returned(op, id, v) == [op |-> op, job |-> id, kind |-> "return", val |-> v]

Raised(op, id, e) == [op |-> op, job |-> id, kind |-> "raise", val |-> e]

\* coroutine u's operation is over
Idle(u) ==
    /\ upc' = [upc EXCEPT ![u] = "idle"]
    /\ u_job' = [u_job EXCEPT ![u] = NoJob]

\* operations are started inside the block, on an open client
CanStart(u) == upc[u] = "idle" /\ cm_phase = "body"

\* start_queue_processor's effect on the processor tasks
StartProcessor ==
    IF queue_processor_task = NoTask
    THEN /\ \E t \in TaskIds : proc[t] = "unborn"
         /\ queue_processor_task' = FreshTask
         /\ proc' = [proc EXCEPT ![FreshTask] = "get"]
         /\ UNCHANGED <<cancel_req, proc_job>>
    ELSE UNCHANGED proc_vars

\* start_queue_processor()
StartQueueProcessor(u) ==
    /\ CanStart(u)
    /\ StartProcessor
    /\ uret' = Returned("start_queue_processor", NoJob, "None")
    /\ UNCHANGED <<max_retries, retry_delay, request_vars, lib_vars, ctor_vars,
                   wait_vars,
                   returned_ids, session,
                   queue_vars, upc, u_job, u_task, cm_vars>>

\* the rest of submit_job once job_queue.put has room
FinishSubmit(u, id) ==
    /\ job_queue' = Append(job_queue, id)
    /\ StartProcessor
    /\ Idle(u)
    /\ uret' = Returned("submit_job", id, "None")
    /\ returned_ids' = Append(returned_ids, id)

\* submit_job(task): the job is registered, then put on the queue
SubmitJob(u) ==
    /\ CanStart(u)
    /\ \E j \in JobIds : ~InJobs(j)
    /\ LET id == FreshJobId IN
        /\ jobs' = [jobs EXCEPT ![id] = NewJob]
        /\ IF QueueFull
           THEN /\ upc' = [upc EXCEPT ![u] = "put_wait"]
                /\ u_job' = [u_job EXCEPT ![u] = id]
                /\ UNCHANGED <<job_queue, proc_vars, uret, returned_ids>>
           ELSE FinishSubmit(u, id)
    /\ UNCHANGED <<max_retries, retry_delay, request_vars, lib_vars, ctor_vars,
                   wait_vars,
                   session, ran, u_task, cm_vars>>

\* submit_job, resumed when the queue has room
SubmitJobResume(u) ==
    /\ upc[u] = "put_wait"
    /\ ~QueueFull
    /\ FinishSubmit(u, u_job[u])
    /\ UNCHANGED <<max_retries, retry_delay, request_vars, lib_vars, ctor_vars,
                   wait_vars,
                   session, jobs, ran, u_task, cm_vars>>

\* Task.cancel(): a finished task is not cancelled
CancelTask(t) ==
    cancel_req' = [cancel_req EXCEPT ![t] = @ \/ proc[t] /= "done"]

\* stop_queue_processor up to its await: cancel the task and wait for it
\* unless it is finished already; next is "idle" or "close_session"
StopProcessor(u, next) ==
    IF queue_processor_task = NoTask
    THEN /\ upc' = [upc EXCEPT ![u] = next]
         /\ UNCHANGED <<proc_vars, u_task>>
    ELSE LET t == queue_processor_task IN
         /\ CancelTask(t)
         /\ IF proc[t] = "done"
            THEN /\ queue_processor_task' = NoTask
                 /\ upc' = [upc EXCEPT ![u] = next]
                 /\ UNCHANGED u_task
            ELSE /\ upc' = [upc EXCEPT ![u] =
                               IF next = "idle" THEN "stop_wait" ELSE "close_wait"]
                 /\ u_task' = [u_task EXCEPT ![u] = t]
                 /\ UNCHANGED queue_processor_task
         /\ UNCHANGED <<proc, proc_job>>

\* stop_queue_processor()
StopQueueProcessor(u) ==
    /\ CanStart(u)
    /\ StopProcessor(u, "idle")
    /\ uret' = IF upc'[u] = "idle"
               THEN Returned("stop_queue_processor", NoJob, "None")
               ELSE uret
    /\ UNCHANGED <<max_retries, retry_delay, request_vars, lib_vars, ctor_vars,
                   wait_vars,
                   returned_ids, session,
                   queue_vars, u_job, cm_vars>>

\* stop_queue_processor, resumed when the awaited task has ended
StopResume(u) ==
    /\ upc[u] \in {"stop_wait", "close_wait"}
    /\ proc[u_task[u]] = "done"
    /\ queue_processor_task' = NoTask
    /\ upc' = [upc EXCEPT ![u] = IF @ = "stop_wait" THEN "idle" ELSE "close_session"]
    /\ u_task' = [u_task EXCEPT ![u] = NoTask]
    /\ uret' = IF upc[u] = "stop_wait"
               THEN Returned("stop_queue_processor", NoJob, "None")
               ELSE uret
    /\ UNCHANGED <<max_retries, retry_delay, request_vars, lib_vars, ctor_vars,
                   wait_vars,
                   returned_ids, session,
                   queue_vars, proc, cancel_req, proc_job, u_job, cm_vars>>

\* _process_queue: job = await self.job_queue.get(); the job starts running
ProcGet(t) ==
    /\ proc[t] = "get"
    /\ ~cancel_req[t]
    /\ job_queue /= <<>>
    /\ LET id == Head(job_queue) IN
        /\ job_queue' = Tail(job_queue)
        /\ jobs' = [jobs EXCEPT ![id].status = "running", ![id].started = TRUE]
        /\ proc_job' = [proc_job EXCEPT ![t] = id]
    /\ proc' = [proc EXCEPT ![t] = "run"]
    /\ UNCHANGED <<max_retries, retry_delay, request_vars, lib_vars, ctor_vars,
                   wait_vars,
                   returned_ids, session,
                   ran, queue_processor_task, cancel_req, coro_vars, cm_vars>>

\* the job after its task returned v
JobCompletedLostResult(job, v) ==
    [job EXCEPT !.status = "completed", !.completed = TRUE]

JobCompleted(job, v) ==
    [job EXCEPT !.result = v, !.status = "completed", !.completed = TRUE]

\* the job after its task raised e
JobFailed(job, e) ==
    [job EXCEPT !.error = e, !.status = "failed", !.completed = TRUE]

\* _process_queue: the job's task returns or raises
ProcTaskEnds(t) ==
    /\ proc[t] = "run"
    /\ ~cancel_req[t]
    /\ LET id == proc_job[t] IN
        \/ \E v \in JobValues :
            /\ jobs' = [jobs EXCEPT ![id] = JobCompleted(@, v)]
            /\ ran' = [ran EXCEPT ![id] = [kind |-> "return", val |-> v]]
        \/ \E e \in JobErrors :
            /\ jobs' = [jobs EXCEPT ![id] = JobFailed(@, e)]
            /\ ran' = [ran EXCEPT ![id] = [kind |-> "raise", val |-> e]]
    /\ proc' = [proc EXCEPT ![t] = "get"]
    /\ proc_job' = [proc_job EXCEPT ![t] = NoJob]
    /\ UNCHANGED <<max_retries, retry_delay, request_vars, lib_vars, ctor_vars,
                   wait_vars,
                   returned_ids, session,
                   job_queue, queue_processor_task, cancel_req, coro_vars, cm_vars>>

\* _process_queue: CancelledError arrives at the await; a running job keeps
\* its status, its finally clause runs, and the loop is left
ProcCancelled(t) ==
    /\ proc[t] \in {"get", "run"}
    /\ cancel_req[t]
    /\ jobs' = IF proc[t] = "run"
               THEN [jobs EXCEPT ![proc_job[t]].completed = TRUE]
               ELSE jobs
    /\ proc' = [proc EXCEPT ![t] = "done"]
    /\ proc_job' = [proc_job EXCEPT ![t] = NoJob]
    /\ cancel_req' = [cancel_req EXCEPT ![t] = FALSE]
    /\ UNCHANGED <<max_retries, retry_delay, request_vars, lib_vars, ctor_vars,
                   wait_vars,
                   returned_ids, session,
                   job_queue, ran, queue_processor_task, coro_vars, cm_vars>>

NotFound == "Job not found"

\* timeout=None
NoTimeout == 0

\* the timeout argument of wait_for_job: None, or a time in polls of 0.1 s
Timeouts == {NoTimeout} \cup 1..MaxTimeout

\* the time passed after one more asyncio.sleep(0.1), counted no further
\* than the longest timeout
Elapsed(el) == IF el < MaxTimeout THEN el + 1 ELSE el

\* get_job_status(job_id)
GetJobStatus(u) ==
    /\ CanStart(u)
    /\ \E id \in JobIds :
        uret' = IF ~InJobs(id)
                THEN Raised("get_job_status", id, NotFound)
                ELSE Returned("get_job_status", id, jobs[id].status)
    /\ UNCHANGED <<max_retries, retry_delay, request_vars, lib_vars, ctor_vars,
                   wait_vars,
                   returned_ids, session,
                   queue_vars, proc_vars, upc, u_job, u_task, cm_vars>>

\* while job.status in (JobStatus.PENDING, JobStatus.RUNNING)
StillWaitingPendingOnly(job) == job.status = "pending"

StillWaiting(job) == job.status \in {"pending", "running"}

\* if job.error: raise job.error; return job.result
JobOutcomeIgnoringError(op, id, job) == Returned(op, id, job.result)

JobOutcome(op, id, job) ==
    IF job.error /= "None"
    THEN Raised(op, id, job.error)
    ELSE Returned(op, id, job.result)

\* wait_for_job from the while loop on, called with timeout tmo, after
\* el sleeps of 0.1 s: the loop condition reads the job's status only
WaitLoop(u, id, tmo, el) ==
    IF StillWaiting(jobs[id])
    THEN /\ upc' = [upc EXCEPT ![u] = "wait_sleep"]
         /\ u_job' = [u_job EXCEPT ![u] = id]
         /\ u_timeout' = [u_timeout EXCEPT ![u] = tmo]
         /\ u_elapsed' = [u_elapsed EXCEPT ![u] = el]
         /\ UNCHANGED uret
    ELSE /\ Idle(u)
         /\ u_timeout' = [u_timeout EXCEPT ![u] = NoTimeout]
         /\ u_elapsed' = [u_elapsed EXCEPT ![u] = 0]
         /\ uret' = JobOutcome("wait_for_job", id, jobs[id])

\* wait_for_job(job_id, timeout)
WaitForJob(u) ==
    /\ CanStart(u)
    /\ \E id \in JobIds, tmo \in Timeouts :
        IF ~InJobs(id)
        THEN /\ uret' = Raised("wait_for_job", id, NotFound)
             /\ UNCHANGED <<upc, u_job, wait_vars>>
        ELSE WaitLoop(u, id, tmo, 0)
    /\ UNCHANGED <<max_retries, retry_delay, request_vars, lib_vars, ctor_vars,
                   returned_ids, session, queue_vars, proc_vars, u_task, cm_vars>>

\* wait_for_job: asyncio.sleep(0.1) is over, the status is read again
WaitPoll(u) ==
    /\ upc[u] = "wait_sleep"
    /\ WaitLoop(u, u_job[u], u_timeout[u], Elapsed(u_elapsed[u]))
    /\ UNCHANGED <<max_retries, retry_delay, request_vars, lib_vars, ctor_vars,
                   returned_ids, session, queue_vars, proc_vars, u_task, cm_vars>>

(* --------------------- AsyncClient: async with block -------------------- *)

\* __aenter__
AEnter ==
    /\ constructed = "yes"
    /\ cm_phase = "none"
    /\ cm_phase' = "body"
    /\ UNCHANGED <<max_retries, retry_delay, request_vars, lib_vars, ctor_vars,
                   wait_vars,
                   returned_ids, session,
                   queue_vars, proc_vars, coro_vars, body_exit>>

\* whether __aexit__ calls close() for a body that ended this way
AExitClosesOnSuccessOnly(how) == how = "normal"

AExitCloses(how) == TRUE

\* the body ends, normally or by an exception, once the coroutines it
\* started are through; __aexit__ runs close() up to its first await
AExit ==
    /\ cm_phase = "body"
    /\ \A u \in Coros : upc[u] = "idle"
    /\ \E how \in {"normal", "raised"} :
        /\ body_exit' = how
        /\ IF AExitCloses(how)
           THEN /\ cm_phase' = "closing"
                /\ StopProcessor(MainCoro, "close_session")
           ELSE /\ cm_phase' = "left"
                /\ UNCHANGED <<proc_vars, upc, u_task>>
    /\ UNCHANGED <<max_retries, retry_delay, request_vars, lib_vars, ctor_vars,
                   wait_vars,
                   returned_ids, session,
                   queue_vars, u_job, uret>>

\* close(): await self.session.close(); __aexit__ returns
CloseSession ==
    /\ cm_phase = "closing"
    /\ upc[MainCoro] = "close_session"
    /\ session' = "closed"
    /\ cm_phase' = "left"
    /\ upc' = [upc EXCEPT ![MainCoro] = "idle"]
    /\ UNCHANGED <<max_retries, retry_delay, request_vars, lib_vars, ctor_vars,
                   wait_vars, returned_ids,
                   queue_vars, proc_vars, u_job, u_task, uret, body_exit>>

(* ------------- module-level functions: feedback, scrape ---------------- *)

\* a requests.Response: its status code and its text
Statuses == {200, 399, 400, 500}

Texts == {"{\"status\": \"success\"}", "oops"}

\* None where a response is expected, and before any response exists
NoResponse == [status |-> 0, text |-> ""]

\* what requests.post does: it raises HTTPError, it raises another
\* RequestException (no connection), or it returns a response
PostOutcomes ==
    {[type |-> ty, status |-> 0, text |-> "connection refused"] :
        ty \in {"post_http_error", "post_failed"}}
    \cup {[type |-> "response", status |-> st, text |-> tx] :
            st \in Statuses, tx \in Texts}

\* no HTTP function is being applied
NoPost == [type |-> "none", status |-> 0, text |-> ""]

LibPending ==
    [kind |-> "pending", cls |-> "", msg |-> "", val |-> <<>>,
     response |-> NoResponse]

LibReturn(v) ==
    [kind |-> "return", cls |-> "", msg |-> "", val |-> v,
     response |-> NoResponse]

LibRaise(cls, msg, response) ==
    [kind |-> "raise", cls |-> cls, msg |-> msg, val |-> <<>>,
     response |-> response]

\* json.dumps of a dict, given as key, value, key, value, ...
JsonDumps(members) == <<"json">> \o members

\* response.text
Text(o) == <<"text", o.text>>

\* requests.Response.raise_for_status raises HTTPError for these codes
RaiseForStatus(status) == 400 <= status /\ status < 600

\* whether the local variable response was assigned when the except clause
\* runs: only if requests.post returned
ResponseBound(o) == o.type = "response"

\* feedback: the except requests.exceptions.HTTPError clause
OnHTTPError(o) ==
    IF ResponseBound(o)
    THEN LibReturn(JsonDumps(<<"error", "HTTP error occurred",
                              "message", "HTTPError",
                              "status_code", ToString(o.status)>>))
    ELSE LibRaise("UnboundLocalError", "response", NoResponse)

\* feedback(api_key, feedback)
feedback(o) ==
    CASE o.type = "post_http_error" -> OnHTTPError(o)
      [] o.type = "post_failed" ->
            LibReturn(JsonDumps(<<"error", "An error occurred",
                                  "message", o.text>>))
      [] o.type = "response" ->
            IF RaiseForStatus(o.status)
            THEN OnHTTPError(o)
            ELSE LibReturn(Text(o))

\* exceptions.APIError(message, response=response)
APIErrorWith(message, response) == LibRaise("APIError", message, response)

\* raise_for_status_code(status_code, response)
raise_for_status_code(o) == o.status >= 400

\* the try block of scrape and of scrape_text
PostAndCheck(o) ==
    IF o.type = "response"
    THEN IF raise_for_status_code(o)
         THEN APIErrorWith("API request failed with status",
                           [status |-> o.status, text |-> o.text])
         ELSE LibReturn(Text(o))
    ELSE APIErrorWith("Request failed", NoResponse)

\* the names scrapegraph_py/exceptions.py defines
ExceptionsNames ==
    {"APIError", "AuthenticationError", "RateLimitError", "BadRequestError",
     "InternalServerError"}

\* from .exceptions import ...
ScrapeImports == {"APIError"}

LocalScraperImports == {"raise_for_status_code", "APIError"}

\* the import statement: a name the module does not define is an ImportError
ImportFails(names) == ~(names \subseteq ExceptionsNames)

\* scrape(client, url, prompt, schema)
scrape(o) ==
    IF ImportFails(ScrapeImports)
    THEN LibRaise("ImportError", "scrapegraph_py.exceptions", NoResponse)
    ELSE PostAndCheck(o)

\* scrape_text(client, website_text, prompt, schema), imported from
\* scrapegraph_py.local_scraper
scrape_text(o) ==
    IF ImportFails(LocalScraperImports)
    THEN LibRaise("ImportError", "scrapegraph_py.exceptions", NoResponse)
    ELSE PostAndCheck(o)

\* everything outside the module-level functions and the request models
sdk_vars == <<max_retries, retry_delay, request_vars, client_vars>>

\* a module-level function is called once requests.post's behaviour is fixed
CallLib(name, out) ==
    /\ lib_fn = "-"
    /\ post_in.type /= "none"
    /\ lib_fn' = name
    /\ lib_out' = out
    /\ UNCHANGED <<sdk_vars, post_in, str_in, lib_again>>

CallFeedback == CallLib("feedback", feedback(post_in))

CallScrape == CallLib("scrape", scrape(post_in))

CallScrapeText == CallLib("scrape_text", scrape_text(post_in))

(* ------------------- request models: scheduled jobs -------------------- *)

\* characters: one whitespace character and one other character
Chars == {" ", "x"}

\* the strings given to the models, as sequences of characters
Strings == UNION {[1..n -> Chars] : n \in 0..MaxStrLen}

\* None given for a field
NoneStr == <<"None">>

IsSpace(ch) == ch = " "

RECURSIVE LStrip(_)
\* str.lstrip()
LStrip(s) == IF s /= <<>> /\ IsSpace(Head(s)) THEN LStrip(Tail(s)) ELSE s

RECURSIVE RStrip(_)
\* str.rstrip()
RStrip(s) ==
    IF s /= <<>> /\ IsSpace(s[Len(s)])
    THEN RStrip(SubSeq(s, 1, Len(s) - 1))
    ELSE s

\* str.strip()
StripLeftOnly(s) == LStrip(s)

Strip(s) == RStrip(LStrip(s))

RECURSIVE FieldLen(_)
\* the length of the run of non-whitespace characters s starts with
FieldLen(s) ==
    IF s = <<>> \/ IsSpace(Head(s)) THEN 0 ELSE 1 + FieldLen(Tail(s))

RECURSIVE Split(_)
\* str.split(): the maximal runs of non-whitespace characters
Split(s) ==
    LET t == LStrip(s) IN
    IF t = <<>>
    THEN <<>>
    ELSE <<SubSeq(t, 1, FieldLen(t))>> \o Split(SubSeq(t, FieldLen(t) + 1, Len(t)))

\* a str field given None: pydantic rejects it before the model validator
FieldTypeError == LibRaise("ValidationError", "Input should be a valid string", NoResponse)

JobIdError == "Job ID must be a non-empty string"

\* GetScheduledJobRequest / TriggerJobRequest / JobActionRequest
JobIdModels == {"GetScheduledJobRequest", "TriggerJobRequest", "JobActionRequest"}

\* validate_job_id: `not self.job_id` tests the string as given, then the
\* stripped string is stored
validate_job_id(s) ==
    IF s = NoneStr
    THEN FieldTypeError
    ELSE IF s = <<>>
         THEN LibRaise("ValueError", JobIdError, NoResponse)
         ELSE LibReturn(Strip(s))

CronFieldsError == "Cron expression must have exactly 5 fields"

\* parts = self.cron_expression.strip().split(); len(parts) != 5; the
\* stripped string is stored
CheckCronFields(s) ==
    IF Len(Split(Strip(s))) /= 5
    THEN LibRaise("ValueError", CronFieldsError, NoResponse)
    ELSE LibReturn(Strip(s))

\* ScheduledJobCreate.validate_cron_expression
ScheduledJobCreate(s) ==
    IF s = NoneStr
    THEN FieldTypeError
    ELSE IF s = <<>>
         THEN LibRaise("ValueError", "Cron expression must be a non-empty string",
                       NoResponse)
         ELSE CheckCronFields(s)

\* ScheduledJobUpdate.validate_cron_expression
ScheduledJobUpdate(s) ==
    IF s = NoneStr THEN LibReturn(NoneStr) ELSE CheckCronFields(s)

CronModels == {"ScheduledJobCreate", "ScheduledJobUpdate"}

\* the model validator of a cron model
ValidateCron(cls, s) ==
    IF cls = "ScheduledJobCreate" THEN ScheduledJobCreate(s) ELSE ScheduledJobUpdate(s)

\* a request model is constructed from the string given
Construct(cls, out) ==
    /\ lib_fn = "-"
    /\ post_in.type = "none"
    /\ lib_fn' = cls
    /\ lib_out' = out
    /\ UNCHANGED <<sdk_vars, post_in, str_in, lib_again>>

ConstructJobIdRequest ==
    \E cls \in JobIdModels : Construct(cls, validate_job_id(str_in))

ConstructScheduledJobCreate ==
    Construct("ScheduledJobCreate", ScheduledJobCreate(str_in))

ConstructScheduledJobUpdate ==
    Construct("ScheduledJobUpdate", ScheduledJobUpdate(str_in))

\* the stored cron_expression is validated once more
Revalidate ==
    /\ lib_fn \in CronModels
    /\ lib_out.kind = "return"
    /\ lib_again.kind = "pending"
    /\ lib_again' = ValidateCron(lib_fn, lib_out.val)
    /\ UNCHANGED <<sdk_vars, lib_fn, post_in, str_in, lib_out>>

(* --------------------------- specification ----------------------------- *)

\* no module-level function or request model in use
LibIdle ==
    /\ lib_fn = "-"
    /\ post_in = NoPost
    /\ str_in = <<>>
    /\ lib_out = LibPending
    /\ lib_again = LibPending

\* the job queue, the processor and the coroutines before anything ran
QueueInit ==
    /\ job_queue = <<>>
    /\ jobs = [id \in JobIds |-> NoJobRecord]
    /\ ran = [id \in JobIds |-> NotRun]
    /\ queue_processor_task = NoTask
    /\ proc = [t \in TaskIds |-> "unborn"]
    /\ cancel_req = [t \in TaskIds |-> FALSE]
    /\ proc_job = [t \in TaskIds |-> NoJob]
    /\ upc = [u \in Coros |-> "idle"]
    /\ u_job = [u \in Coros |-> NoJob]
    /\ u_task = [u \in Coros |-> NoTask]
    /\ uret = NoOutcome
    /\ u_timeout = [u \in Coros |-> NoTimeout]
    /\ u_elapsed = [u \in Coros |-> 0]
    /\ returned_ids = <<>>

\* no facade call made yet
NoCalls ==
    /\ pc = [c \in Calls |-> "idle"]
    /\ meth = [c \in Calls |-> "get_credits"]
    /\ args_valid = [c \in Calls |-> TRUE]
    /\ rid = [c \in Calls |-> "r1"]
    /\ wire = [c \in Calls |-> <<>>]
    /\ attempt = [c \in Calls |-> 0]
    /\ http_calls = [c \in Calls |-> 0]
    /\ waits = [c \in Calls |-> <<>>]
    /\ result = [c \in Calls |-> Pending]
    /\ served = [c \in Calls |-> <<>>]
    /\ s_pc = [c \in Calls |-> "idle"]
    /\ s_attempt = [c \in Calls |-> 0]
    /\ s_http_calls = [c \in Calls |-> 0]
    /\ s_result = [c \in Calls |-> Pending]

\* the client AsyncClient(api_key="sgai-1", max_queue_size=MaxQueue) is
Constructed ==
    /\ env_key = Unset
    /\ ctor_how = "init_arg"
    /\ constructed = "yes"
    /\ api_key = "sgai-1"
    /\ ctor_exc = NoExc
    /\ session = "open"
    /\ has_queue = TRUE
    /\ max_queue_size = MaxQueue
    /\ cm_phase = "none"
    /\ body_exit = "-"

\* the calls asyncio.gather runs at once on one client
GatherCalls == {1, 2}

\* no call of the gather started yet
NoGatherCalls ==
    /\ pc = [c \in GatherCalls |-> "idle"]
    /\ meth = [c \in GatherCalls |-> "get_credits"]
    /\ args_valid = [c \in GatherCalls |-> TRUE]
    /\ rid = [c \in GatherCalls |-> "r1"]
    /\ wire = [c \in GatherCalls |-> <<>>]
    /\ attempt = [c \in GatherCalls |-> 0]
    /\ http_calls = [c \in GatherCalls |-> 0]
    /\ waits = [c \in GatherCalls |-> <<>>]
    /\ result = [c \in GatherCalls |-> Pending]
    /\ served = [c \in GatherCalls |-> <<>>]
    /\ s_pc = [c \in GatherCalls |-> "idle"]
    /\ s_attempt = [c \in GatherCalls |-> 0]
    /\ s_http_calls = [c \in GatherCalls |-> 0]
    /\ s_result = [c \in GatherCalls |-> Pending]

\* a constructed client, no call made yet
Init ==
    /\ max_retries \in RetriesDomain
    /\ retry_delay \in DelayDomain
    /\ NoCalls
    /\ Constructed
    /\ QueueInit
    /\ LibIdle

Next ==
    \E c \in Calls :
        \/ CallFacade(c)
        \/ LoopHead(c)
        \/ HttpAttempt(c)
        \/ SleepDone(c)
        \/ SyncLoopHead(c)
        \/ SyncAttempt(c)

Spec == Init /\ [][Next]_vars

\* a client constructed with the default retry settings, outside any block
InitClient ==
    /\ max_retries = DefaultMaxRetries
    /\ retry_delay = DefaultRetryDelay
    /\ NoCalls
    /\ Constructed
    /\ QueueInit
    /\ LibIdle

NextClient ==
    \/ AEnter
    \/ AExit
    \/ CloseSession
    \/ \E u \in Coros :
        \/ StartQueueProcessor(u)
        \/ StopQueueProcessor(u)
        \/ StopResume(u)
        \/ SubmitJob(u)
        \/ SubmitJobResume(u)
        \/ GetJobStatus(u)
        \/ WaitForJob(u)
        \/ WaitPoll(u)
    \/ \E t \in TaskIds :
        \/ ProcGet(t)
        \/ ProcTaskEnds(t)
        \/ ProcCancelled(t)

SpecClient == InitClient /\ [][NextClient]_vars

\* before construction: the environment is what it is, no client exists
InitCtor ==
    /\ max_retries = 0
    /\ retry_delay = 0
    /\ NoCalls
    /\ env_key \in EnvValues
    /\ ctor_how = "-"
    /\ constructed = "no"
    /\ api_key = ""
    /\ ctor_exc = NoExc
    /\ session = "none"
    /\ has_queue = FALSE
    /\ max_queue_size = 0
    /\ cm_phase = "none"
    /\ body_exit = "-"
    /\ QueueInit
    /\ LibIdle

NextCtor ==
    \/ FromEnv
    \/ InitFromEnv
    \/ InitWithArg

SpecCtor == InitCtor /\ [][NextCtor]_vars

\* the module-level functions and the request models, each given an input:
\* what requests.post will do, or the string for the model's field
InitLib ==
    /\ max_retries = DefaultMaxRetries
    /\ retry_delay = DefaultRetryDelay
    /\ NoCalls
    /\ Constructed
    /\ QueueInit
    /\ lib_fn = "-"
    /\ lib_out = LibPending
    /\ lib_again = LibPending
    /\ \/ post_in \in PostOutcomes /\ str_in = <<>>
       \/ post_in = NoPost /\ str_in \in Strings \cup {NoneStr}

NextLib ==
    \/ CallFeedback
    \/ CallScrape
    \/ CallScrapeText
    \/ ConstructJobIdRequest
    \/ ConstructScheduledJobCreate
    \/ ConstructScheduledJobUpdate
    \/ Revalidate

SpecLib == InitLib /\ [][NextLib]_vars

\* asyncio.gather of facade calls on one client with the default retry
\* settings: the calls' coroutines interleave at their awaits
InitGather ==
    /\ max_retries = DefaultMaxRetries
    /\ retry_delay = DefaultRetryDelay
    /\ NoGatherCalls
    /\ Constructed
    /\ QueueInit
    /\ LibIdle

NextGather ==
    \E c \in GatherCalls :
        \/ CallFacade(c)
        \/ LoopHead(c)
        \/ HttpAttempt(c)
        \/ SleepDone(c)

SpecGather == InitGather /\ [][NextGather]_vars

(* ------------------------------- claims -------------------------------- *)

\* the outcomes call c's own attempts met
History(c) == SubSeq(served[c], 1, http_calls[c])

AllConn(h) == \A i \in 1..Len(h) : h[i].type = "conn"

\* C1: a call issues at most max_retries HTTP attempts: every attempt it
\* issues, and every value the attempt counter takes while a request is in
\* progress, is numbered at most max_retries.
C1_AttemptsBounded ==
    \A c \in Calls :
        /\ \A i \in 1..http_calls[c] : i <= max_retries
        /\ pc[c] \in {"http", "sleep"} => attempt[c] + 1 <= max_retries

C1_Witness ==
    \E c \in Calls :
        /\ pc[c] = "done"
        /\ max_retries >= 3
        /\ http_calls[c] = max_retries
        /\ AllConn(History(c))

\* C2: when max_retries >= 1 and every attempt of a finished call failed at
\* connection level, the call raised ConnectionError after exactly
\* max_retries attempts, returned nothing, and slept only between attempts
\* (max_retries - 1 waits, none after the last failure).
C2_ExhaustedRaisesConnectionError ==
    \A c \in Calls :
        /\ (/\ pc[c] = "done"
            /\ ~ValidationRejects(meth[c], args_valid[c])
            /\ max_retries >= 1
            /\ AllConn(History(c)))
           => /\ result[c].kind = "raise"
              /\ result[c].cls = "ConnectionError"
              /\ http_calls[c] = max_retries
              /\ Len(waits[c]) = max_retries - 1
        /\ pc[c] = "sleep" => http_calls[c] < max_retries

C2_Witness ==
    \E c \in Calls :
        /\ pc[c] = "done"
        /\ max_retries >= 2
        /\ http_calls[c] = max_retries
        /\ AllConn(History(c))
        /\ result[c].cls = "ConnectionError"

\* attempt k of call c succeeds and attempts 1..k-1 failed at connection level
FirstSuccessAt(c, k) ==
    /\ k <= Len(served[c])
    /\ served[c][k].type = "ok"
    /\ AllConn(SubSeq(served[c], 1, k - 1))

\* C3: when attempt k is the first to succeed after k-1 connection-level
\* failures, the call makes no attempt beyond k, and with attempt k it ends
\* returning exactly the parsed JSON body of attempt k.
C3_FirstSuccessReturned ==
    \A c \in Calls : \A k \in 1..Len(served[c]) :
        FirstSuccessAt(c, k) =>
            /\ http_calls[c] <= k
            /\ http_calls[c] = k =>
                /\ pc[c] = "done"
                /\ result[c] = Return(ParseJson(served[c][k].body))

C3_Witness ==
    \E c \in Calls :
        /\ http_calls[c] = 3
        /\ FirstSuccessAt(c, 3)
        /\ result[c].kind = "return"
        /\ result[c].value = ParseJson(served[c][3].body)

\* C4 as stated: the waits of a call start at retry_delay and each is a
\* constant factor greater than 1 times the one before (for a positive
\* retry_delay).
C4_ExponentialBackoff ==
    \A c \in Calls :
        (retry_delay > 0 /\ Len(waits[c]) >= 1) =>
            /\ waits[c][1] = retry_delay
            /\ \A n \in 1..(Len(waits[c]) - 1) : waits[c][n + 1] > waits[c][n]
            /\ \A n \in 1..(Len(waits[c]) - 2) :
                   waits[c][n + 2] * waits[c][n] = waits[c][n + 1] * waits[c][n + 1]

\* C4, amended: the backoff is linear: the wait after the n-th failed attempt
\* is n * retry_delay, so the waits start at retry_delay and grow by the
\* constant increment retry_delay.
C4_LinearBackoff ==
    \A c \in Calls : \A n \in 1..Len(waits[c]) :
        waits[c][n] = n * retry_delay

C4_Witness ==
    \E c \in Calls :
        /\ retry_delay = 2
        /\ waits[c] = <<2, 4, 6>>

\* the last outcome call c met carries an HTTP status
EndedOnStatus(c) ==
    /\ pc[c] = "done"
    /\ http_calls[c] >= 1
    /\ served[c][http_calls[c]].type = "status"

\* C5: a call that fails with an error carrying an HTTP status raises
\* APIError whose status_code is that status and whose message contains the
\* server's error text.
C5_StatusErrorIsAPIError ==
    \A c \in Calls :
        EndedOnStatus(c) =>
            LET o == served[c][http_calls[c]] IN
            /\ result[c].kind = "raise"
            /\ result[c].cls = "APIError"
            /\ result[c].status_code = o.status
            /\ (IsJson(o.body) /\ o.body[1] = "error") => InSeq(o.body[2], result[c].msg)

\* C6: when the request model of a facade call rejects the arguments, no
\* HTTP attempt is issued for the call and the caller receives the
\* validation error.
C6_ValidationPrecedesHttp ==
    \A c \in Calls :
        (pc[c] /= "idle" /\ BuildsRequestModel(meth[c]) /\ ~args_valid[c]) =>
            /\ http_calls[c] = 0
            /\ pc[c] = "done"
            /\ result[c] = Raise(ValidationError)

C6_Witness ==
    \E c \in Calls :
        /\ pc[c] = "done"
        /\ meth[c] = "smartscraper"
        /\ ~args_valid[c]
        /\ result[c].cls = "ValidationError"
        /\ max_retries >= 1

\* C7: fed the same configuration and the same server outcomes, Client and
\* AsyncClient make the same number of attempts and end in the same outcome:
\* the same returned JSON, or an error of the same class.
C7_SyncAsyncAgree ==
    \A c \in Calls :
        (pc[c] = "done" /\ s_pc[c] = "done") =>
            /\ http_calls[c] = s_http_calls[c]
            /\ result[c].kind = s_result[c].kind
            /\ result[c].value = s_result[c].value
            /\ result[c].cls = s_result[c].cls

C9_ClientFromEnvironment ==
    ctor_how \in {"from_env", "init_none"} =>
        IF env_key /= Unset /\ env_key /= ""
        THEN /\ constructed = "yes"
             /\ api_key = env_key
        ELSE /\ constructed = "raised"
             /\ ctor_exc.cls = "ValueError"
             /\ InSeq("SGAI_API_KEY", ctor_exc.msg)
             /\ session = "none"
             /\ ~has_queue

C9_Witness ==
    /\ ctor_how = "init_none"
    /\ env_key = ""
    /\ constructed = "raised"
    /\ ctor_exc = InitEnvError

\* C10: wait_for_job on a submitted job ends only when the job is COMPLETED
\* or FAILED; for a COMPLETED job it returns the value the job's task
\* returned, for a FAILED job it raises the exception the task raised.
C10_WaitForJobOutcome ==
    (/\ uret.op = "wait_for_job"
     /\ ~(uret.kind = "raise" /\ uret.val = NotFound))
    => LET id == uret.job IN
       /\ jobs[id].status \in {"completed", "failed"}
       /\ jobs[id].status = "completed" =>
            /\ ran[id].kind = "return"
            /\ uret = Returned("wait_for_job", id, ran[id].val)
       /\ jobs[id].status = "failed" =>
            /\ ran[id].kind = "raise"
            /\ uret = Raised("wait_for_job", id, ran[id].val)

\* one job completed with a value, and wait_for_job raised the error of another
C10_Witness ==
    /\ uret = Raised("wait_for_job", 2, "E1")
    /\ jobs[2].status = "failed"
    /\ jobs[1].status = "completed"
    /\ jobs[1].result = "v1"

\* C11: wait_for_job(job_id, timeout=t) with a finite t waits at most t: it is
\* never found sleeping again on a PENDING or RUNNING job once t has elapsed.
C11_WaitBoundedByTimeout ==
    \A u \in Coros :
        (upc[u] = "wait_sleep" /\ u_timeout[u] /= NoTimeout)
            => u_elapsed[u] < u_timeout[u]

\* the step in which a submit_job call returns
SubmitJobReturns == uret' /= uret /\ uret'.op = "submit_job"

\* C12: when submit_job returns, the client's _queue_processor_task is a live
\* processor: a task that exists, has not ended and has no cancellation
\* pending; in every interleaving with start_/stop_queue_processor calls.
C12_SubmitLeavesLiveProcessor ==
    [][SubmitJobReturns =>
          /\ queue_processor_task' /= NoTask
          /\ proc'[queue_processor_task'] \in {"get", "run"}
          /\ ~cancel_req'[queue_processor_task']]_vars

\* C13: the ids submit_job returned are pairwise distinct, each of them is
\* registered in jobs from its return on, and get_job_status on a returned id
\* does not raise the not-found ValueError.
C13_ReturnedIdsDistinctAndKept ==
    /\ \A i, j \in 1..Len(returned_ids) :
          returned_ids[i] = returned_ids[j] => i = j
    /\ \A i \in 1..Len(returned_ids) : InJobs(returned_ids[i])
    /\ (uret.op = "get_job_status" /\ InSeq(uret.job, returned_ids))
          => uret.kind = "return"

C13_Witness ==
    /\ Len(returned_ids) >= 2
    /\ uret.op = "get_job_status"
    /\ uret.job = returned_ids[1]
    /\ uret.kind = "return"
    /\ uret.val \in {"completed", "failed"}

\* the step in which get_job_status(id) is called (and returns or raises)
GetJobStatusCalled(id) ==
    uret' /= uret /\ uret'.op = "get_job_status" /\ uret'.job = id

\* the step in which wait_for_job(id) is called: it starts to poll, or it
\* returns or raises at once
WaitForJobCalled(id) ==
    \/ \E u \in Coros :
          upc[u] = "idle" /\ upc'[u] = "wait_sleep" /\ u_job'[u] = id
    \/ upc' = upc /\ uret' /= uret /\ uret'.op = "wait_for_job" /\ uret'.job = id

\* the call raised the not-found ValueError at once and changed nothing
NotFoundRaised(id) ==
    /\ uret'.kind = "raise"
    /\ uret'.val = NotFound
    /\ uret'.job = id
    /\ UNCHANGED <<queue_vars, proc_vars, upc, u_job, u_task, wait_vars>>

\* C14, as stated: get_job_status and wait_for_job called with an id that
\* submit_job never returned raise ValueError at once (wait_for_job does not
\* start polling) and leave jobs, job_queue and the jobs' fields unchanged.
C14_NeverReturnedIdRaises ==
    [][\A id \in JobIds :
          ((GetJobStatusCalled(id) \/ WaitForJobCalled(id))
              /\ ~InSeq(id, returned_ids))
          => NotFoundRaised(id)]_vars

\* C14, amended: the same for an id that is not a key of jobs, that is, an
\* id no submit_job call has created.
C14_UnregisteredIdRaises ==
    [][\A id \in JobIds :
          ((GetJobStatusCalled(id) \/ WaitForJobCalled(id))
              /\ jobs[id].status = "none")
          => NotFoundRaised(id)]_vars

C14_Witness ==
    /\ uret = Raised("wait_for_job", 2, NotFound)
    /\ jobs[2].status = "none"
    /\ jobs[1].status = "pending"
    /\ job_queue = <<1>>

\* the jobs waiting in job_queue, and the jobs whose submit_job is blocked
Waiting == {job_queue[i] : i \in 1..Len(job_queue)}

Blocked == {u_job[u] : u \in {v \in Coros : upc[v] = "put_wait"}}

\* C15: with max_queue_size = N > 0 at most N jobs wait in job_queue; a
\* submit_job issued while N jobs wait is blocked until the processor takes
\* one; no waiting job is dropped or overwritten: every PENDING job waits in
\* the queue exactly once or is held by a blocked submit_job, and the queue
\* changes only by a put at its tail or by the processor taking its head.
C15_QueueBounded ==
    /\ [](max_queue_size > 0 =>
            /\ Len(job_queue) <= max_queue_size
            /\ \A i, j \in 1..Len(job_queue) :
                  job_queue[i] = job_queue[j] => i = j
            /\ \A id \in Waiting : jobs[id].status = "pending"
            /\ Waiting \cap Blocked = {}
            /\ \A id \in JobIds :
                  jobs[id].status = "pending" => id \in Waiting \cup Blocked)
    /\ [][max_queue_size > 0 =>
            \/ job_queue' = job_queue
            \/ /\ Len(job_queue) < max_queue_size
               /\ \E id \in JobIds \ Waiting : job_queue' = Append(job_queue, id)
            \/ /\ job_queue /= <<>>
               /\ job_queue' = Tail(job_queue)
               /\ jobs'[Head(job_queue)].status = "running"]_vars

C15_Witness ==
    /\ max_queue_size > 0
    /\ Len(job_queue) = max_queue_size
    /\ \E u \in Coros : upc[u] = "put_wait" /\ jobs[u_job[u]].status = "pending"

\* the remote operations the specification names
SpecOperations ==
    {"smartscraper", "searchscraper", "markdownify", "crawl", "feedback",
     "credits"}

\* the methods that submit a request, and the methods that fetch a result
Submissions == {"smartscraper", "searchscraper", "markdownify", "submit_feedback"}

Fetches == {"get_smartscraper", "get_searchscraper", "get_markdownify"}

\* the remote operation a method's path starts with
OperationOf(m) == Endpoint(m, "r1")[2][1]

\* every attempt of every call so far went to the pair fixed for its method:
\* POST /<operation>, GET /<operation>/<request_id>, or GET /credits
FixedEndpoints ==
    \A c \in Calls : \A i \in 1..Len(wire[c]) :
        LET m == meth[c]
            op == OperationOf(m) IN
        /\ m \in Submissions => wire[c][i] = <<"POST", <<op>>>>
        /\ m \in Fetches => wire[c][i] = <<"GET", <<op, rid[c]>>>>
        /\ m = "get_credits" => wire[c][i] = <<"GET", <<"credits">>>>
        /\ m \in Submissions \cup Fetches \cup {"get_credits"}

\* C16: AsyncClient has a method for each remote operation the specification
\* names (smartscraper, searchscraper, markdownify, crawl, feedback, credits),
\* and every attempt of a call is sent to the one (HTTP method, path) pair
\* of its method, whatever the other arguments and the attempt number.
C16_OneEndpointPerOperation ==
    /\ \A op \in SpecOperations : \E m \in Methods : OperationOf(m) = op
    /\ FixedEndpoints

\* the POST ended in requests.exceptions.HTTPError, raised by requests.post
\* itself or by response.raise_for_status()
HTTPErrorRaised(o) ==
    \/ o.type = "post_http_error"
    \/ o.type = "response" /\ RaiseForStatus(o.status)

\* C17: feedback() propagates no exception: when the POST ends in HTTPError,
\* raised by the POST call itself or by raise_for_status, it returns a JSON
\* string containing "HTTP error occurred"; for another RequestException it
\* returns a JSON string with an "error" field; otherwise the response text.
C17_FeedbackNeverPropagates ==
    lib_fn = "feedback" =>
        /\ lib_out.kind = "return"
        /\ HTTPErrorRaised(post_in) =>
              (lib_out.val[1] = "json" /\ InSeq("HTTP error occurred", lib_out.val))
        /\ post_in.type = "post_failed" =>
              (lib_out.val[1] = "json" /\ lib_out.val[2] = "error")
        /\ (post_in.type = "response" /\ ~RaiseForStatus(post_in.status)) =>
              lib_out.val = Text(post_in)

\* C18: scrape and scrape_text have exactly three outcomes: the response
\* text for a status below 400, APIError carrying the response for a status
\* of 400 or above, APIError with response None when the POST fails at
\* transport level; a status of 400 or above is never returned as text.
C18_ScrapeOutcomes ==
    lib_fn \in {"scrape", "scrape_text"} =>
        /\ (post_in.type = "response" /\ post_in.status < 400) =>
              lib_out = LibReturn(Text(post_in))
        /\ (post_in.type = "response" /\ post_in.status >= 400) =>
              /\ lib_out.kind = "raise"
              /\ lib_out.cls = "APIError"
              /\ lib_out.response = [status |-> post_in.status, text |-> post_in.text]
        /\ post_in.type /= "response" =>
              /\ lib_out.kind = "raise"
              /\ lib_out.cls = "APIError"
              /\ lib_out.response = NoResponse

\* the string is empty once its leading and trailing whitespace is removed
BlankString(s) == \A i \in 1..Len(s) : s[i] = " "

\* C19: a GetScheduledJobRequest, TriggerJobRequest or JobActionRequest that
\* was constructed has a non-empty job_id, and every input whose job_id is
\* empty after normalization (whitespace-only strings included) is rejected
\* with "Job ID must be a non-empty string".
C19_JobIdNonEmpty ==
    (lib_fn \in JobIdModels /\ str_in /= NoneStr) =>
        /\ lib_out.kind = "return" => lib_out.val /= <<>>
        /\ BlankString(str_in) =>
              (lib_out.kind = "raise" /\ lib_out.msg = JobIdError)

\* the number of whitespace-separated fields of s: the positions at which a
\* run of non-whitespace characters starts
FieldCount(s) ==
    Cardinality({i \in 1..Len(s) :
                    s[i] /= " " /\ (i = 1 \/ s[i - 1] = " ")})

\* v is s without its leading and trailing whitespace
Trimmed(s, v) ==
    /\ v = <<>> \/ (v[1] /= " " /\ v[Len(v)] /= " ")
    /\ \E i, j \in 0..Len(s) :
          /\ i + j <= Len(s)
          /\ v = SubSeq(s, i + 1, Len(s) - j)
          /\ \A k \in 1..Len(s) : (k <= i \/ k > Len(s) - j) => s[k] = " "

\* C20: ScheduledJobCreate accepts a cron_expression exactly when it has 5
\* whitespace-separated fields and stores it without leading and trailing
\* whitespace; ScheduledJobUpdate does the same for a given cron_expression
\* and keeps None; validating the stored value again yields the same value.
C20_CronNormalized ==
    lib_fn \in CronModels =>
        /\ str_in /= NoneStr =>
              /\ lib_out.kind = "return" <=> FieldCount(str_in) = 5
              /\ lib_out.kind = "return" => Trimmed(str_in, lib_out.val)
        /\ (str_in = NoneStr /\ lib_fn = "ScheduledJobUpdate") =>
              lib_out = LibReturn(NoneStr)
        /\ lib_again.kind /= "pending" => lib_again = lib_out

C20_Witness ==
    /\ lib_fn = "ScheduledJobCreate"
    /\ str_in = <<" ", "x", " ", "x", " ", "x", " ", "x", " ", "x", " ">>
    /\ lib_out = LibReturn(<<"x", " ", "x", " ", "x", " ", "x", " ", "x">>)
    /\ lib_again = lib_out

\* C21: a failure that carries an HTTP status is never retried: it ends the
\* call with an exception, as the one attempt made after the last transient
\* failure and with no wait after it; every wait, and so every further
\* attempt, follows a failure without an HTTP status.
C21_StatusFailureNotRetried ==
    \A c \in Calls :
        /\ EndedOnStatus(c) =>
              /\ result[c].kind = "raise"
              /\ AllConn(SubSeq(served[c], 1, http_calls[c] - 1))
              /\ Len(waits[c]) = http_calls[c] - 1
        /\ result[c].cls = "APIError" => EndedOnStatus(c)
        /\ \A i \in 1..http_calls[c] :
              served[c][i].type = "status" => (i = http_calls[c] /\ pc[c] = "done")
        /\ Len(waits[c]) <= http_calls[c]
        /\ \A i \in 1..Len(waits[c]) : served[c][i].type = "conn"

C21_Witness ==
    \E c \in Calls :
        /\ EndedOnStatus(c)
        /\ http_calls[c] = 3
        /\ Len(waits[c]) = 2
        /\ result[c].kind = "raise"

\* one call's own variables
CallState(c) ==
    <<pc[c], meth[c], args_valid[c], rid[c], wire[c], attempt[c],
      http_calls[c], waits[c], result[c], served[c]>>

RECURSIVE AloneRun(_, _, _, _)
\* what _make_request does when it runs alone and meets the outcomes h, from
\* outcome i on with loop variable a, after the waits w
AloneRun(h, i, a, w) ==
    IF ~InRange(a, max_retries)
    THEN [done |-> TRUE, waits |-> w, result |-> Return(PyNone)]
    ELSE IF i > Len(h)
    THEN [done |-> FALSE, waits |-> w, result |-> Pending]
    ELSE IF h[i].type = "ok"
    THEN [done |-> TRUE, waits |-> w, result |-> OnResponse(h[i])]
    ELSE IF HasStatus(h[i])
    THEN [done |-> TRUE, waits |-> w, result |-> OnStatusError(h[i])]
    ELSE IF IsLastAttempt(a, max_retries)
    THEN [done |-> TRUE, waits |-> w,
          result |-> Raise(PyConnectionError(h[i].text))]
    ELSE AloneRun(h, i + 1, a + 1, Append(w, RetryDelay(retry_delay, a)))

\* C22: concurrent requests on one AsyncClient do not interfere: a step of
\* one call leaves every other call's attempt counter, waits, responses and
\* outcome unchanged, and each call's attempts, backoff and outcome are what
\* the same call meeting the same responses has when it runs alone.
C22_ConcurrentCallsIndependent ==
    /\ [][\A c, d \in GatherCalls :
            (c /= d /\ CallState(c)' /= CallState(c))
                => CallState(d)' = CallState(d)]_vars
    /\ [](\A c \in GatherCalls :
            (pc[c] /= "idle" /\ ~ValidationRejects(meth[c], args_valid[c])) =>
                LET alone == AloneRun(History(c), 1, 0, <<>>) IN
                /\ waits[c] = alone.waits
                /\ result[c] = alone.result
                /\ (pc[c] = "done") = alone.done
                /\ http_calls[c] <= max_retries)

C22_Witness ==
    /\ pc[1] = "sleep"
    /\ http_calls[1] = 2
    /\ waits[1] = <<1, 2>>
    /\ pc[2] = "done"
    /\ http_calls[2] = 1
    /\ result[2].kind = "return"
    /\ Len(served[2]) = 1

\* C23: _make_request never returns normally without a successful response:
\* for every max_retries, zero and negative values included, a finished call
\* has raised an error or has returned the parsed body of an attempt that
\* succeeded; it never returns nothing without having made an attempt.
C23_NoSilentFallThrough ==
    \A c \in Calls :
        pc[c] = "done" =>
            /\ result[c].kind \in {"return", "raise"}
            /\ result[c].kind = "return" =>
                  /\ http_calls[c] >= 1
                  /\ served[c][http_calls[c]].type = "ok"
                  /\ result[c] = Return(ParseJson(served[c][http_calls[c]].body))

====
